---- MODULE Spec2Model ----
(***************************************************************************)
(* Model of cyp/models/rnn.py: the RNNModel wrapper and the RNNet module.  *)
(*                                                                         *)
(* Tensors are modelled by what the claims read of them:                   *)
(*   - a parameter tensor by its shape and by the bound of the interval    *)
(*     [-sqrt(num/den), +sqrt(num/den)] its last writer put its elements   *)
(*     in (den = 0: no bound is known, e.g. after an optimizer step);      *)
(*   - an activation tensor by its shape and by the sequence of operations *)
(*     that produced it from an all-zero tensor (hist).                    *)
(* Python indices are kept 0-based in every name and number that the code  *)
(* computes (layer_number, model_weight); TLA+ sequences are 1-based, so   *)
(* element k of a Python list is element k+1 of its sequence.              *)
(***************************************************************************)
EXTENDS Integers, Sequences, FiniteSets, TLC

\* ---------------------------------------------------------------- bounds
MaxChannels == 2      \* in_channels and the channel dimension of x: 1..MaxChannels
MaxBins     == 1      \* num_bins and the bin dimension of x: 1..MaxBins
MaxHidden   == 2      \* hidden_size: 1..MaxHidden
MaxWidth    == 2      \* entries of a caller's dense_features list: 1..MaxWidth
MaxDense    == 2      \* length of the caller's list before any construction
MaxListLen  == 3      \* constructions stop once the caller's list is this long
MaxBatch    == 2      \* batch size: 1..MaxBatch
MaxSeq      == 2      \* number of timesteps: 0..MaxSeq
MaxTimeArg  == 1      \* reinitialize_model(time): None or 0..MaxTimeArg

\* ------------------------------------------------------- Python's values
None == [tag |-> "None"]

\* An optional argument: <<>> is None, <<v>> is the value v.
Opt(S) == {<<>>} \cup {<<v>> : v \in S}

RECURSIVE SeqsUpTo(_, _)
SeqsUpTo(S, n) ==
    IF n = 0 THEN {<<>>}
    ELSE LET shorter == SeqsUpTo(S, n - 1)
         IN  shorter \cup {Append(s, v) : s \in {t \in shorter : Len(t) = n - 1}, v \in S}

\* list.insert(0, v)
Insert0(list, v) == <<v>> \o list

Last(s) == s[Len(s)]

\* ------------------------------------------------------ parameter tensors
\* The bound of an interval [-sqrt(num/den), +sqrt(num/den)].
Bound(num, den) == [num |-> num, den |-> den]
Unbounded == Bound(1, 0)

Param(shape, bound) == [shape |-> shape, bound |-> bound]

\* nn.LSTM(input_size, hidden_size, num_layers=1).all_weights:
\* [[weight_ih_l0, weight_hh_l0, bias_ih_l0, bias_hh_l0]], as allocated.
LSTM(input_size, hidden_size) ==
    [input_size |-> input_size,
     hidden_size |-> hidden_size,
     all_weights |-> << << Param(<<4 * hidden_size, input_size>>, Unbounded),
                           Param(<<4 * hidden_size, hidden_size>>, Unbounded),
                           Param(<<4 * hidden_size>>, Unbounded),
                           Param(<<4 * hidden_size>>, Unbounded) >> >>]

\* nn.Linear(in_features, out_features), as allocated.
Linear(in_features, out_features) ==
    [in_features |-> in_features,
     out_features |-> out_features,
     weight |-> Param(<<out_features, in_features>>, Unbounded),
     bias |-> Param(<<out_features>>, Unbounded)]

\* nn.init.uniform_(pam.data, -sqrt(sq), sqrt(sq)); sq is the square of the limit.
uniform_(pam, sq) == [pam EXCEPT !.bound = sq]

\* nn.init.kaiming_uniform_(w): uniform within +-sqrt(6 / fan_in), fan_in = w.shape[1].
kaiming_uniform_(pam) == [pam EXCEPT !.bound = Bound(6, pam.shape[2])]

\* nn.init.constant_(pam.data, c) for c = 0.
constant_(pam, c) == [pam EXCEPT !.bound = Bound(c * c, 1)]

\* sqrt_k = math.sqrt(1 / self.hidden_size), kept as its square.
WrongSqrtK(hidden_size) == Bound(hidden_size, 1)
SqrtK(hidden_size) == Bound(1, hidden_size)

\* RNNet.initialize_weights
initialize_weights(n) ==
    [n EXCEPT
       !.rnn.all_weights =
           [l \in DOMAIN @ |-> [p \in DOMAIN @[l] |-> uniform_(@[l][p], SqrtK(n.hidden_size))]],
       !.dense_layers =
           [k \in DOMAIN @ |-> [@[k] EXCEPT !.weight = kaiming_uniform_(@),
                                            !.bias = constant_(@, 0)]]]

\* ------------------------------------------------------------ construction
\* RNNet.__init__, lines 73-79: the list the layers are sized by. `passed` is the
\* dense_features argument (<<>>: None; <<l>>: a list whose contents are l).
DefaultDense == <<256, 1>>

DenseFeatures(passed, hidden_size, add_year_loc) ==
    LET given    == IF passed = <<>> THEN DefaultDense ELSE passed[1]
        inserted == Insert0(given, hidden_size)
    IN  IF add_year_loc THEN [inserted EXCEPT ![1] = @ + 3] ELSE inserted

\* RNNet.__init__, lines 88-92: Linear(d[i-1], d[i]) for i in range(1, len(d)).
UnchainedLayers(d) == [i \in 1..(Len(d) - 1) |-> Linear(d[1], d[i + 1])]
DenseLayers(d) == [i \in 1..(Len(d) - 1) |-> Linear(d[i], d[i + 1])]

\* RNNet.__init__: the module built. args records the call for the properties.
RNNet(in_channels, num_bins, hidden_size, rnn_dropout, passed, add_year_loc) ==
    LET d == DenseFeatures(passed, hidden_size, add_year_loc)
    IN  initialize_weights(
            [add_year_loc |-> add_year_loc,
             dropout |-> rnn_dropout,
             rnn |-> LSTM(in_channels * num_bins, hidden_size),
             hidden_size |-> hidden_size,
             dense_layers |-> DenseLayers(d),
             args |-> [in_channels |-> in_channels, num_bins |-> num_bins,
                       hidden_size |-> hidden_size, passed |-> passed,
                       add_year_loc |-> add_year_loc]])

\* What RNNet.__init__ leaves in the caller's list object: the list is changed in
\* place (insert, += 3), so a list that was passed holds the derived widths.
ListAfter(list, passed, hidden_size, add_year_loc) ==
    IF passed = <<>> THEN list ELSE DenseFeatures(passed, hidden_size, add_year_loc)

\* RNNModel.__init__, lines 46-51, evaluated after RNNet(...) has run: `after` is
\* the dense_features argument as it is then (<<>>: None).
NumDenseLayers(after) == IF after = <<>> THEN 2 ELSE Len(after[1])

\* f'dense_layers.{k}.weight' and f'dense_layers.{k}.bias'
ParamName(k, leaf) == <<"dense_layers", k, leaf>>

\* model_type, lines 53-54
ModelType(add_year_loc) == IF add_year_loc THEN "rnn_year_loc" ELSE "rnn"

\* Default dropout rates, in percent: RNNet's (line 70) and RNNModel's (line 37).
RNNetDropout == 25
RNNModelDropout == 75

\* ------------------------------------------------------ activation tensors
Op(name, at) == [op |-> name, at |-> at]
Act(shape, hist) == [shape |-> shape, hist |-> hist]

\* torch.zeros(d0, d1, d2)
ones(d0, d1, d2) == Act(<<d0, d1, d2>>, <<Op("ones", 0)>>)
zeros(d0, d1, d2) == Act(<<d0, d1, d2>>, <<>>)

\* A batch handed to forward: [batch, bands, times, bins].
Input(batch, bands, times, bins) == Act(<<batch, bands, times, bins>>, <<Op("x", 0)>>)

\* x.permute(0, 2, 1, 3).contiguous()
Permute0213(t) == [t EXCEPT !.shape = <<@[1], @[3], @[2], @[4]>>]

\* x.view(x.shape[0], x.shape[1], x.shape[2] * x.shape[3])
View3(t) == [t EXCEPT !.shape = <<@[1], @[2], @[3] * @[4]>>]

\* x[:, i, :].unsqueeze(1): timestep i of [batch, times, features], as [batch, 1, features].
Timestep(t, i) == Act(<<t.shape[1], 1, t.shape[3]>>, Append(t.hist, Op("select", i)))

\* self.rnn(input_x, (h, c)) accepts its arguments: the feature width is the cell's
\* input_size and both states are [num_layers = 1, batch, hidden_size].
RnnAccepts(rnn, input_x, h, c) ==
    /\ input_x.shape[3] = rnn.input_size
    /\ h.shape = <<1, input_x.shape[1], rnn.hidden_size>>
    /\ c.shape = <<1, input_x.shape[1], rnn.hidden_size>>

\* One state tensor after the cell has consumed input_x.
RnnState(s, input_x) == [s EXCEPT !.hist = Append(@, Op("rnn", Last(input_x.hist).at))]

\* self.dropout(t), with the module's rate
Dropout(t, rate) == [t EXCEPT !.hist = Append(@, Op("dropout", rate))]

\* Lines 133-135: the pair (hidden_state, cell_state) after one iteration.
DropoutOnCell(n, input_x, h, c) ==
    [hidden |-> RnnState(h, input_x), cell |-> Dropout(RnnState(c, input_x), n.dropout)]
LoopBody(n, input_x, h, c) ==
    [hidden |-> Dropout(RnnState(h, input_x), n.dropout), cell |-> RnnState(c, input_x)]

\* t.squeeze(0)
NoSqueeze(t) == t
Squeeze0(t) == IF t.shape[1] = 1 THEN [t EXCEPT !.shape = Tail(@)] ELSE t

\* t.unsqueeze(1) of a 1-D tensor
Unsqueeze1(t) == [t EXCEPT !.shape = <<@[1], 1>>]

\* torch.cat((a, b), dim=1) accepts two 2-D tensors of the same first dimension.
CatAccepts(a, b) == Len(a.shape) = 2 /\ Len(b.shape) = 2 /\ a.shape[1] = b.shape[1]
Cat1(a, b) == Act(<<a.shape[1], a.shape[2] + b.shape[2]>>, Append(a.hist, Op("cat", b.shape[2])))

Raise(name) == [status |-> "error", error |-> name, ret |-> <<>>]
Return(values) == [status |-> "ok", error |-> "", ret |-> values]

\* Lines 139-141: the features entering the dense stack, or the exception raised.
AugmentIgnoresFlag(n, feat, years, locations) ==
    IF years = None \/ locations = None THEN Return(<<feat>>)
    ELSE Return(<<Cat1(feat, Cat1(Unsqueeze1(years), locations))>>)
Augment(n, feat, years, locations) ==
    IF ~n.add_year_loc THEN Return(<<feat>>)
    ELSE IF years = None THEN Raise("AttributeError")
    ELSE IF locations = None THEN Raise("TypeError")
    ELSE IF ~CatAccepts(Unsqueeze1(years), locations) THEN Raise("RuntimeError")
    ELSE LET year_loc == Cat1(Unsqueeze1(years), locations)
         IN  IF ~CatAccepts(feat, year_loc) THEN Raise("RuntimeError")
             ELSE Return(<<Cat1(feat, year_loc)>>)

\* dense_layer(x)
Dense(layer, layer_number, t) ==
    Act([t.shape EXCEPT ![Len(t.shape)] = layer.out_features],
        Append(t.hist, Op("dense", layer_number)))

\* Line 145: the layer whose output is captured.
Captures(num_layers, layer_number) == layer_number = num_layers - 2

\* Lines 143-149: the loop over enumerate(self.dense_layers), from layer_number on,
\* and the return. output is <<>> while the local `output` is unbound.
RECURSIVE DenseStack(_, _, _, _, _)
DenseStack(layers, layer_number, t, output, return_last_dense) ==
    IF layer_number = Len(layers)
    THEN IF return_last_dense
         THEN IF output = <<>> THEN Raise("UnboundLocalError")
              ELSE Return(<<t, output[1]>>)
         ELSE Return(<<t>>)
    ELSE LET layer == layers[layer_number + 1]
         IN  IF Last(t.shape) # layer.in_features THEN Raise("RuntimeError")
             ELSE LET y == Dense(layer, layer_number, t)
                  IN  DenseStack(layers, layer_number + 1, y,
                                 IF return_last_dense /\ Captures(Len(layers), layer_number)
                                 THEN <<y>> ELSE output,
                                 return_last_dense)

\* Lines 137-149: what forward returns or raises once the loop has ended.
AfterLoop(n, h, years, locations, return_last_dense) ==
    LET aug == Augment(n, Squeeze0(h), years, locations)
    IN  IF aug.status = "error" THEN aug
        ELSE DenseStack(n.dense_layers, 0, aug.ret[1], <<>>, return_last_dense)

\* ------------------------------------------------------------------ state
VARIABLES
    callerList,     \* the contents of the caller's dense_features list object
    net,            \* the RNNet built last (None before any construction)
    model,          \* the RNNModel that wraps net (None: net was built on its own)
    last,           \* the operation that built or wrote the parameters last, its time argument,
                    \* and whether an optimizer step has been taken since the construction
    pc,             \* "idle"; "loop": forward is in its timestep loop; "returned": forward has ended
    call,           \* the arguments of the forward call in progress or just ended
    x,              \* forward's local x
    hidden_state,   \* forward's local hidden_state
    cell_state,     \* forward's local cell_state
    i,              \* forward's loop index: the timestep the next iteration reads
    result          \* what the forward call just ended returned or raised

vars == <<callerList, net, model, last, pc, call, x, hidden_state, cell_state, i, result>>

forwardVars == <<pc, call, x, hidden_state, cell_state, i, result>>

Channels   == 1..MaxChannels
Bins       == 1..MaxBins
Hiddens    == 1..MaxHidden
Batches    == 1..MaxBatch
SeqLens    == 0..MaxSeq
TimeArgs   == Opt(0..MaxTimeArg)
CallerLists == SeqsUpTo(1..MaxWidth, MaxDense)

NoCall == [x |-> None, years |-> None, locations |-> None, return_last_dense |-> FALSE]
NoResult == [status |-> "none", error |-> "", ret |-> <<>>]

Init ==
    /\ callerList \in CallerLists
    /\ net = None
    /\ model = None
    /\ last = [op |-> "none", time |-> <<>>, trained |-> FALSE]
    /\ pc = "idle"
    /\ call = NoCall
    /\ x = None
    /\ hidden_state = None
    /\ cell_state = None
    /\ i = 0
    /\ result = NoResult

\* The dense_features argument of a construction: None, or the caller's list object.
Passed(byList) == IF byList THEN <<callerList>> ELSE <<>>

CanConstruct(byList) == pc = "idle" /\ (byList => Len(callerList) < MaxListLen)

\* RNNet(...) called directly.
ConstructRNNet(in_channels, num_bins, hidden_size, byList, add_year_loc) ==
    /\ CanConstruct(byList)
    /\ net' = RNNet(in_channels, num_bins, hidden_size, RNNetDropout, Passed(byList), add_year_loc)
    /\ callerList' = ListAfter(callerList, Passed(byList), hidden_size, add_year_loc)
    /\ model' = None
    /\ last' = [op |-> "RNNet", time |-> <<>>, trained |-> FALSE]
    /\ UNCHANGED forwardVars

\* RNNModel(...): builds the RNNet, then names the final dense layer from the
\* dense_features argument as RNNet.__init__ left it.
ConstructRNNModel(in_channels, num_bins, hidden_size, byList, add_year_loc) ==
    /\ CanConstruct(byList)
    /\ net' = RNNet(in_channels, num_bins, hidden_size, RNNModelDropout, Passed(byList), add_year_loc)
    /\ callerList' = ListAfter(callerList, Passed(byList), hidden_size, add_year_loc)
    /\ LET after == IF byList THEN <<callerList'>> ELSE <<>>
           num_dense_layers == NumDenseLayers(after)
       IN  model' = [model_weight |-> ParamName(num_dense_layers - 1, "weight"),
                     model_bias |-> ParamName(num_dense_layers - 1, "bias"),
                     model_type |-> ModelType(add_year_loc)]
    /\ last' = [op |-> "RNNModel", time |-> <<>>, trained |-> FALSE]
    /\ UNCHANGED forwardVars

\* The training loop of the base class: an optimizer step moves every parameter.
Trained(n) ==
    [n EXCEPT
       !.rnn.all_weights = [l \in DOMAIN @ |-> [p \in DOMAIN @[l] |-> [@[l][p] EXCEPT !.bound = Unbounded]]],
       !.dense_layers = [k \in DOMAIN @ |-> [@[k] EXCEPT !.weight.bound = Unbounded,
                                                        !.bias.bound = Unbounded]]]

Train ==
    /\ pc = "idle"
    /\ model # None
    /\ net' = Trained(net)
    /\ last' = [op |-> "train", time |-> <<>>, trained |-> TRUE]
    /\ UNCHANGED <<callerList, model>>
    /\ UNCHANGED forwardVars

\* RNNModel.reinitialize_model(time)
ReinitializeModel(time) ==
    /\ pc = "idle"
    /\ model # None
    /\ net' = initialize_weights(net)
    /\ last' = [op |-> "reinit", time |-> time, trained |-> last.trained]
    /\ UNCHANGED <<callerList, model>>
    /\ UNCHANGED forwardVars

\* forward, lines 115-125: reshape the input and allocate the states. Lines
\* 123-125 move the states to the input's device, which changes neither their
\* shape nor their values; devices are not part of the state.
ForwardBegin(input, years, locations, return_last_dense) ==
    /\ pc = "idle"
    /\ net # None
    /\ call' = [x |-> input, years |-> years, locations |-> locations,
                return_last_dense |-> return_last_dense]
    /\ x' = View3(Permute0213(input))
    /\ hidden_state' = zeros(1, input.shape[1], net.hidden_size)
    /\ cell_state' = zeros(1, input.shape[1], net.hidden_size)
    /\ i' = 0
    /\ pc' = "loop"
    /\ result' = NoResult
    /\ UNCHANGED <<callerList, net, model, last>>

\* sequence_length = x.shape[1]
SequenceLength == x.shape[2]

\* forward's locals are gone once the call has ended.
EndCall(outcome) ==
    /\ result' = outcome
    /\ pc' = "returned"
    /\ x' = None
    /\ hidden_state' = None
    /\ cell_state' = None
    /\ i' = 0
    /\ UNCHANGED <<callerList, net, model, last, call>>

\* One iteration of the loop of lines 127-135.
ForwardStep ==
    /\ pc = "loop"
    /\ i < SequenceLength
    /\ LET input_x == Timestep(x, i)
       IN  IF RnnAccepts(net.rnn, input_x, hidden_state, cell_state)
           THEN LET s == LoopBody(net, input_x, hidden_state, cell_state)
                IN  /\ hidden_state' = s.hidden
                    /\ cell_state' = s.cell
                    /\ i' = i + 1
                    /\ UNCHANGED <<callerList, net, model, last, pc, call, x, result>>
           ELSE EndCall(Raise("RuntimeError"))

\* The loop has ended: lines 137-149.
ForwardFinish ==
    /\ pc = "loop"
    /\ i >= SequenceLength
    /\ EndCall(AfterLoop(net, hidden_state, call.years, call.locations, call.return_last_dense))

\* The caller has what forward returned or raised and goes on.
Resume ==
    /\ pc = "returned"
    /\ pc' = "idle"
    /\ call' = NoCall
    /\ result' = NoResult
    /\ UNCHANGED <<callerList, net, model, last, x, hidden_state, cell_state, i>>

Inputs == {Input(b, c, t, n) : b \in Batches, c \in Channels, t \in SeqLens, n \in Bins}
YearsOf(input) == {None, Act(<<input.shape[1]>>, <<Op("years", 0)>>)}
LocationsOf(input) == {None, Act(<<input.shape[1], 2>>, <<Op("locations", 0)>>)}

Next ==
    \/ \E c \in Channels, n \in Bins, h \in Hiddens, byList \in BOOLEAN, ayl \in BOOLEAN :
           ConstructRNNet(c, n, h, byList, ayl)
    \/ \E c \in Channels, n \in Bins, h \in Hiddens, byList \in BOOLEAN, ayl \in BOOLEAN :
           ConstructRNNModel(c, n, h, byList, ayl)
    \/ Train
    \/ \E time \in TimeArgs : ReinitializeModel(time)
    \/ \E input \in Inputs, rld \in BOOLEAN :
           \E years \in YearsOf(input), locations \in LocationsOf(input) :
               ForwardBegin(input, years, locations, rld)
    \/ ForwardStep
    \/ ForwardFinish
    \/ Resume

NextBuild ==
    \/ \E c \in Channels, n \in Bins, h \in Hiddens, byList \in BOOLEAN, ayl \in BOOLEAN :
           ConstructRNNet(c, n, h, byList, ayl)
    \/ \E c \in Channels, n \in Bins, h \in Hiddens, byList \in BOOLEAN, ayl \in BOOLEAN :
           ConstructRNNModel(c, n, h, byList, ayl)
    \/ Train
    \/ \E time \in TimeArgs : ReinitializeModel(time)

SpecBuild == Init /\ [][NextBuild]_vars

Spec == Init /\ [][Next]_vars

\* =================================================================== claims
\* The caller's request of the network built last: the list passed, or the default.
Requested == IF net.args.passed = <<>> THEN DefaultDense ELSE net.args.passed[1]

NumLayers == Len(net.dense_layers)

\* The forward call in progress or just ended.
Batch == call.x.shape[1]
Times == call.x.shape[3]

\* [batch, channels, time, bins] with channels * bins the recurrent input width.
ValidInput == call.x.shape[2] * call.x.shape[4] = net.rnn.input_size

\* years and locations are there when the network needs them.
ValidAux == net.add_year_loc => (call.years # None /\ call.locations # None)

Returned == pc = "returned"

\* C1: the names RNNModel hands to the base class are those of the last dense
\* layer of the network it built: k = (number of dense layers) - 1, whether
\* dense_features was None or a list of length >= 1.
C1_FinalLayerNamed ==
    (model # None /\ Len(Requested) >= 1) =>
        /\ model.model_weight = ParamName(NumLayers - 1, "weight")
        /\ model.model_bias = ParamName(NumLayers - 1, "bias")

\* C10: a construction that is passed the caller's list leaves the list as it was,
\* and builds, for the same hyperparameters, the same dense layers as the
\* construction before it that was passed the same list.
C10_ConstructionRepeatable ==
    [][\A c \in Channels, n \in Bins, h \in Hiddens, ayl \in BOOLEAN :
           (ConstructRNNet(c, n, h, TRUE, ayl) \/ ConstructRNNModel(c, n, h, TRUE, ayl)) =>
               /\ callerList' = callerList
               /\ (/\ net # None
                   /\ net.args.passed # <<>>
                   /\ net.args.in_channels = c /\ net.args.num_bins = n
                   /\ net.args.hidden_size = h /\ net.args.add_year_loc = ayl)
                  => net'.dense_layers = net.dense_layers]_vars

\* The width the last dense layer puts out: the last entry of the derived list.
FinalWidth == IF Len(Requested) = 0 THEN net.hidden_size ELSE Last(Requested)

\* C2: without augmentation and without return_last_dense, forward on a valid
\* input [batch, channels, time, bins] returns one tensor of shape [batch, w],
\* w the last entry of the dense-feature-size list.
C2_OutputShape ==
    (Returned /\ ~net.add_year_loc /\ ~call.return_last_dense /\ ValidInput) =>
        /\ result.status = "ok"
        /\ Len(result.ret) = 1
        /\ result.ret[1].shape = <<Batch, FinalWidth>>

C2_Witness ==
    /\ Returned /\ ~net.add_year_loc /\ ~call.return_last_dense /\ ValidInput
    /\ Batch = 2 /\ Times = 2 /\ net.hidden_size = 2
    /\ Requested = <<2, 1>>
    /\ result.ret[1].shape = <<2, 1>>

\* C3: with return_last_dense, forward returns the pair (final output, output of
\* the dense layer of index len(dense_layers) - 2), for every network that has a
\* dense layer.
C3_PairReturned ==
    (Returned /\ call.return_last_dense /\ ValidInput /\ ValidAux /\ NumLayers >= 1) =>
        /\ result.status = "ok"
        /\ Len(result.ret) = 2
        /\ Last(result.ret[2].hist) = Op("dense", NumLayers - 2)
        /\ Last(result.ret[2].shape) = net.dense_layers[NumLayers - 1].out_features
        /\ result.ret[1].shape = <<Batch, FinalWidth>>

\* C6: on an input of at least one timestep, a network with exactly one dense
\* layer and no augmentation returns [batch, w] without return_last_dense and,
\* with it, the pair of [batch, w] and a feature vector [batch, hidden_size].
C6_SingleLayerPair ==
    (Returned /\ ValidInput /\ ~net.add_year_loc /\ NumLayers = 1 /\ Times >= 1) =>
        /\ result.status = "ok"
        /\ result.ret[1].shape = <<Batch, FinalWidth>>
        /\ call.return_last_dense =>
               /\ Len(result.ret) = 2
               /\ result.ret[2].shape = <<Batch, net.hidden_size>>

\* The operations of a returned tensor's history that are named `name`.
OpsNamed(t, name) == {k \in DOMAIN t.hist : t.hist[k].op = name}

\* C4: with augmentation the first dense layer takes hidden_size + 3 inputs and
\* the features entering it are the hidden features with 3 columns appended; a
\* call without years or without locations then ends in failure. Without
\* augmentation years and locations are not read: nothing is appended and no
\* call fails for their absence.
C4_Augmentation ==
    /\ (net # None /\ net.add_year_loc /\ NumLayers >= 1) =>
           net.dense_layers[1].in_features = net.hidden_size + 3
    /\ (Returned /\ net.add_year_loc /\ (call.years = None \/ call.locations = None)) =>
           result.status = "error"
    /\ (Returned /\ net.add_year_loc /\ result.status = "ok") =>
           /\ Cardinality(OpsNamed(result.ret[1], "cat")) = 1
           /\ \A k \in OpsNamed(result.ret[1], "cat") :
                  /\ result.ret[1].hist[k].at = 3
                  /\ \A d \in OpsNamed(result.ret[1], "dense") : k < d
                  /\ \A r \in OpsNamed(result.ret[1], "rnn") : r < k
           /\ NumLayers = 0 => result.ret[1].shape = <<Batch, net.hidden_size + 3>>
    /\ (Returned /\ ~net.add_year_loc) =>
           /\ result.error \notin {"AttributeError", "TypeError"}
           /\ \A k \in DOMAIN result.ret : OpsNamed(result.ret[k], "cat") = {}
           /\ (ValidInput /\ ~call.return_last_dense) => result.status = "ok"

C4_Witness ==
    /\ Returned /\ net.add_year_loc /\ NumLayers = 2 /\ net.hidden_size = 2
    /\ call.years # None /\ call.locations # None /\ Times = 2
    /\ result.status = "ok"
    /\ net.dense_layers[1].in_features = 5

\* The histories the loop must have produced after `steps` iterations.
HiddenHist(steps, rate) ==
    [k \in 1..(2 * steps) |-> IF k % 2 = 1 THEN Op("rnn", (k - 1) \div 2) ELSE Op("dropout", rate)]
CellHist(steps) == [k \in 1..steps |-> Op("rnn", k - 1)]

\* C7: over T timesteps the cell is applied exactly T times, to timesteps
\* 0, 1, ..., T-1 in this order, each time to the states the step before left;
\* dropout follows every step, the last included, on the hidden state and never
\* on the cell state; the dense stack runs only after step T-1.
C7_LoopOrder ==
    /\ pc = "loop" =>
           /\ i \in 0..Times
           /\ hidden_state.hist = HiddenHist(i, net.dropout)
           /\ cell_state.hist = CellHist(i)
    /\ (Returned /\ result.status = "ok") =>
           /\ Len(result.ret[1].hist) >= 2 * Times
           /\ SubSeq(result.ret[1].hist, 1, 2 * Times) = HiddenHist(Times, net.dropout)
           /\ \A k \in OpsNamed(result.ret[1], "dense") : k > 2 * Times

C7_Witness ==
    /\ Returned /\ result.status = "ok" /\ Times = 2 /\ NumLayers = 2
    /\ OpsNamed(result.ret[1], "dropout") = {2, 4}
    /\ OpsNamed(result.ret[1], "dense") = {5, 6}

\* C9: every forward call starts from all-zero hidden and cell states of shape
\* [1, batch, hidden_size]; the states are gone when the call has ended; no call
\* changes the network, its wrapper or the caller's list; what a call returns
\* holds the T cell steps of this call and none of an earlier call.
C9_FreshState ==
    /\ [](/\ (pc = "loop" /\ i = 0) =>
                 /\ hidden_state = Act(<<1, Batch, net.hidden_size>>, <<>>)
                 /\ cell_state = Act(<<1, Batch, net.hidden_size>>, <<>>)
          /\ pc # "loop" => (hidden_state = None /\ cell_state = None)
          /\ (Returned /\ result.status = "ok") =>
                 \A k \in DOMAIN result.ret :
                     Cardinality(OpsNamed(result.ret[k], "rnn")) = Times)
    /\ [][(pc # "idle" \/ pc' # "idle") => UNCHANGED <<net, model, callerList>>]_vars

C9_Witness ==
    /\ pc = "loop" /\ i = 0 /\ Batch = 2 /\ net.hidden_size = 2 /\ Times = 2
    /\ last.trained
    /\ hidden_state.shape = <<1, 2, 2>>

\* Every element of a parameter lies within [-sqrt(1/hidden_size), +sqrt(1/hidden_size)].
InRecurrentRange(pam) == pam.bound.den > 0 /\ pam.bound.num * net.hidden_size <= pam.bound.den

\* Every element of a parameter is exactly 0.
IsZero(pam) == pam.bound.den > 0 /\ pam.bound.num = 0

\* C5: right after a construction and right after reinitialize_model(time), for
\* every time argument and whatever training did before, every recurrent weight
\* and bias lies within [-sqrt(1/hidden_size), +sqrt(1/hidden_size)] and every
\* dense bias is 0.
C5_InitialisedParameters ==
    (net # None /\ last.op \in {"RNNet", "RNNModel", "reinit"}) =>
        /\ \A l \in DOMAIN net.rnn.all_weights :
               /\ Len(net.rnn.all_weights[l]) = 4
               /\ \A p \in DOMAIN net.rnn.all_weights[l] :
                      InRecurrentRange(net.rnn.all_weights[l][p])
        /\ \A k \in DOMAIN net.dense_layers : IsZero(net.dense_layers[k].bias)

C5_Witness ==
    /\ net # None /\ last.op = "reinit" /\ last.trained /\ last.time = <<1>>
    /\ net.hidden_size = 2 /\ NumLayers = 2
    /\ IsZero(net.dense_layers[2].bias)

\* C8: the dense stack has one layer per requested width (the default request
\* being [256, 1]); layer 0 takes hidden_size inputs, 3 more with augmentation;
\* every later layer takes what the layer before it puts out; layer k puts out
\* the k-th requested width, the last layer the last one. A list that was passed
\* holds the derived widths: hidden_size (+ 3) followed by the request.
C8_DenseWidths ==
    net # None =>
        /\ net.args.passed = <<>> => Requested = <<256, 1>>
        /\ NumLayers = Len(Requested)
        /\ NumLayers >= 1 =>
               /\ net.dense_layers[1].in_features =
                      net.hidden_size + (IF net.add_year_loc THEN 3 ELSE 0)
               /\ net.dense_layers[NumLayers].out_features = Last(Requested)
        /\ \A k \in 1..NumLayers : net.dense_layers[k].out_features = Requested[k]
        /\ \A k \in 2..NumLayers :
               net.dense_layers[k].in_features = net.dense_layers[k - 1].out_features
        /\ net.args.passed # <<>> =>
               callerList = <<net.hidden_size + (IF net.add_year_loc THEN 3 ELSE 0)>> \o Requested

C8_Witness ==
    /\ net # None /\ net.add_year_loc /\ net.hidden_size = 2
    /\ net.args.passed = << <<5, 1>> >>
    /\ NumLayers = 2
    /\ callerList = <<5, 5, 1>>

====
